---- MODULE Spec2Model ----
(***************************************************************************)
(* A model of samples/user_auth.py: the UserManager credential store       *)
(* (create_user, authenticate, get_user_data over one sqlite table), the   *)
(* shell helper execute_system_command, the global counter and the         *)
(* interactive demo.                                                       *)
(*                                                                         *)
(* The program builds every SQL statement and the shell command by string  *)
(* interpolation, so strings are modelled as strings: the statement text   *)
(* is the concatenation the f-string produces, and what the statement does *)
(* is decided by scanning and parsing that text the way sqlite does, for   *)
(* the fragment of SQL the statement templates and the enumerated inputs   *)
(* can produce (string and integer literals, the four column names, = AND  *)
(* OR, unary minus, parentheses, -- comments, multi-row VALUES, one        *)
(* statement per execute).                                                 *)
(***************************************************************************)
EXTENDS Integers, Sequences, FiniteSets, TLC

VARIABLES
    table,          \* rows of users as this connection sees them, in rowid order
    committed,      \* how many of those rows a commit() has made durable
    created,        \* history: <<username, password>> of create_user calls that returned True
    call,           \* the last operation run on the module: its inputs and what the caller observed
    global_counter, \* the module-level counter (line 59)
    threads,        \* per thread: position inside increment_counter, loaded value, calls made
    returned,       \* history: the values increment_counter returned, in order of return
    overlapped,     \* history: two increment_counter calls have been in progress at once
    demo            \* the __main__ block: position, entered values, printed lines

vars == <<table, committed, created, call, global_counter, threads, returned, overlapped, demo>>

(***************************************************************************)
(* Characters and strings.                                                 *)
(***************************************************************************)
Chr(s, i) == SubSeq(s, i, i)

CharsOf(s) == {Chr(s, i) : i \in 1..Len(s)}

LowerCase == "abcdefghijklmnopqrstuvwxyz"
UpperCase == "ABCDEFGHIJKLMNOPQRSTUVWXYZ"
DecDigits == "0123456789"

LowerSet == CharsOf(LowerCase)
DigitSet == CharsOf(DecDigits)
IdStartSet == LowerSet \cup CharsOf(UpperCase) \cup {"_"}
IdCharSet == IdStartSet \cup DigitSet

IndexOf(s, c) == CHOOSE i \in 1..Len(s) : Chr(s, i) = c

ToUpper(c) == IF c \in LowerSet THEN Chr(UpperCase, IndexOf(LowerCase, c)) ELSE c

RECURSIVE UpperStr(_)
UpperStr(s) == IF Len(s) = 0 THEN "" ELSE ToUpper(Chr(s, 1)) \o UpperStr(Tail(s))

DigitVal(c) == IndexOf(DecDigits, c) - 1

\* value of a run of decimal digits
RECURSIVE DigitsToInt(_, _)
DigitsToInt(s, acc) ==
    IF Len(s) = 0 THEN acc ELSE DigitsToInt(Tail(s), 10 * acc + DigitVal(Chr(s, 1)))

RECURSIVE NatToStr(_)
NatToStr(n) ==
    IF n < 10 THEN Chr(DecDigits, n + 1)
    ELSE NatToStr(n \div 10) \o Chr(DecDigits, (n % 10) + 1)

\* str(int) with the sign lost
IntToStrUnsigned(n) == NatToStr(IF n < 0 THEN 0 - n ELSE n)

\* str(int): what an f-string puts for an integer
IntToStr(n) == IF n < 0 THEN "-" \o NatToStr(0 - n) ELSE NatToStr(n)

\* first position >= i of s whose character is not in set (Len(s)+1 when none)
RunEnd(s, i, set) ==
    CHOOSE j \in i..(Len(s) + 1) :
        /\ j = Len(s) + 1 \/ Chr(s, j) \notin set
        /\ \A k \in i..(j - 1) : Chr(s, k) \in set

\* first position >= i of s holding character c (Len(s)+1 when none)
FindChar(s, i, c) ==
    CHOOSE j \in i..(Len(s) + 1) :
        /\ j = Len(s) + 1 \/ Chr(s, j) = c
        /\ \A k \in i..(j - 1) : Chr(s, k) # c

IsIntText(s) ==
    LET d == IF Len(s) > 0 /\ Chr(s, 1) = "-" THEN Tail(s) ELSE s
    IN  Len(d) > 0 /\ RunEnd(d, 1, DigitSet) = Len(d) + 1

TextToInt(s) ==
    IF Chr(s, 1) = "-" THEN 0 - DigitsToInt(Tail(s), 0) ELSE DigitsToInt(s, 0)

\* CAST(text AS NUMERIC) as a truth value reads the longest integer prefix
NumPrefix(s) ==
    LET neg == Len(s) > 0 /\ Chr(s, 1) = "-"
        d   == IF neg THEN Tail(s) ELSE s
        e   == RunEnd(d, 1, DigitSet)
        n   == IF e = 1 THEN 0 ELSE DigitsToInt(SubSeq(d, 1, e - 1), 0)
    IN  IF neg THEN 0 - n ELSE n

(***************************************************************************)
(* sqlite's scanner, for the characters the statements can hold.           *)
(* A token is [k, s, n]: k in "str" "id" "int" "op" "err".  Scanning stops *)
(* at the first character that starts no token ("err").                    *)
(***************************************************************************)
Tok(k, s, n) == [k |-> k, s |-> s, n |-> n]

\* the body of a '...' literal starting after the opening quote; '' is a quote
RECURSIVE ScanString(_, _, _)
ScanString(s, i, acc) ==
    LET q == FindChar(s, i, "'") IN
    CASE q > Len(s) -> [ok |-> FALSE, v |-> acc, next |-> q]
      [] q < Len(s) /\ Chr(s, q + 1) = "'" ->
            ScanString(s, q + 2, acc \o SubSeq(s, i, q - 1) \o "'")
      [] OTHER -> [ok |-> TRUE, v |-> acc \o SubSeq(s, i, q - 1), next |-> q + 1]

WhiteSet == {" ", "\n", "\t"}
OpSet == {"(", ")", ",", "=", "*", ";", "-"}

RECURSIVE Tokenize(_, _)
Tokenize(s, i) ==
    LET c == Chr(s, i) IN
    CASE i > Len(s) -> <<>>
      [] i <= Len(s) /\ c \in WhiteSet -> Tokenize(s, RunEnd(s, i, WhiteSet))
      [] i < Len(s) /\ c = "-" /\ Chr(s, i + 1) = "-" -> Tokenize(s, FindChar(s, i, "\n"))
      [] i <= Len(s) /\ c = "'" ->
            LET r == ScanString(s, i + 1, "")
            IN  IF r.ok THEN <<Tok("str", r.v, 0)>> \o Tokenize(s, r.next)
                ELSE <<Tok("err", "", 0)>>
      [] i <= Len(s) /\ c \in DigitSet ->
            LET e == RunEnd(s, i, DigitSet)
            IN  IF e <= Len(s) /\ Chr(s, e) \in IdCharSet
                THEN <<Tok("err", "", 0)>>
                ELSE <<Tok("int", "", DigitsToInt(SubSeq(s, i, e - 1), 0))>> \o Tokenize(s, e)
      [] i <= Len(s) /\ c \in IdStartSet ->
            LET e == RunEnd(s, i, IdCharSet)
            IN  <<Tok("id", UpperStr(SubSeq(s, i, e - 1)), 0)>> \o Tokenize(s, e)
      [] i <= Len(s) /\ c \in OpSet -> <<Tok("op", c, 0)>> \o Tokenize(s, i + 1)
      [] OTHER -> <<Tok("err", "", 0)>>

(***************************************************************************)
(* sqlite's values, expressions and their evaluation.                      *)
(* A value is [t, n, s]: an integer n (t = "int") or a text s (t = "text").*)
(***************************************************************************)
IntV(n) == [t |-> "int", n |-> n, s |-> ""]
TextV(s) == [t |-> "text", n |-> 0, s |-> s]

EofTok == Tok("eof", "", 0)
At(ts, i) == IF i <= Len(ts) THEN ts[i] ELSE EofTok
IsOp(tk, c) == tk.k = "op" /\ tk.s = c
IsKw(tk, w) == tk.k = "id" /\ tk.s = w

ParseFail == [ok |-> FALSE, e |-> <<>>, next |-> 0]
ParseOk(e, next) == [ok |-> TRUE, e |-> e, next |-> next]

\* expr := and (OR and)* ; and := eq (AND eq)* ; eq := unary (= unary)* ;
\* unary := - unary | literal | column | ( expr ).
\* Binding levels: 1 is OR, 2 is AND, 3 is =, 4 is unary.  cols: the column names in scope.
IsLevelOp(tk, lv) ==
    \/ lv = 1 /\ IsKw(tk, "OR")
    \/ lv = 2 /\ IsKw(tk, "AND")
    \/ lv = 3 /\ IsOp(tk, "=")

LevelOp(lv) == IF lv = 1 THEN "OR" ELSE IF lv = 2 THEN "AND" ELSE "="

\* left <op> right, when right parsed
JoinBin(lv, left, right) ==
    IF right.ok
    THEN ParseOk([t |-> "bin", op |-> LevelOp(lv), l |-> left.e, r |-> right.e], right.next)
    ELSE ParseFail

NegOf(r) == IF r.ok THEN ParseOk([t |-> "neg", e |-> r.e], r.next) ELSE ParseFail

Closed(ts, r) == IF r.ok /\ IsOp(At(ts, r.next), ")") THEN ParseOk(r.e, r.next + 1) ELSE ParseFail

RECURSIVE ParseLevel(_, _, _, _), ParseTail(_, _, _, _)

\* the operators of level lv that follow the operand r, left to right
ParseTail(ts, r, cols, lv) ==
    IF ~r.ok THEN ParseFail
    ELSE IF IsLevelOp(At(ts, r.next), lv)
         THEN ParseTail(ts, JoinBin(lv, r, ParseLevel(ts, r.next + 1, cols, lv + 1)), cols, lv)
         ELSE r

ParseLevel(ts, i, cols, lv) ==
    IF lv < 4 THEN ParseTail(ts, ParseLevel(ts, i, cols, lv + 1), cols, lv)
    ELSE LET tk == At(ts, i) IN
         CASE tk.k = "str" -> ParseOk([t |-> "lit", v |-> TextV(tk.s)], i + 1)
           [] tk.k = "int" -> ParseOk([t |-> "lit", v |-> IntV(tk.n)], i + 1)
           [] tk.k = "id" /\ tk.s \in cols -> ParseOk([t |-> "col", name |-> tk.s], i + 1)
           [] IsOp(tk, "-") -> NegOf(ParseLevel(ts, i + 1, cols, 4))
           [] IsOp(tk, "(") -> Closed(ts, ParseLevel(ts, i + 1, cols, 1))
           [] OTHER -> ParseFail

ParseExpr(ts, i, cols) == ParseLevel(ts, i, cols, 1)

\* column affinity of an operand: id is INTEGER PRIMARY KEY, the others TEXT (line 14)
Affinity(e) ==
    IF e.t = "col" THEN (IF e.name = "ID" THEN "INTEGER" ELSE "TEXT") ELSE "NONE"

ToNumeric(v) == IF v.t = "text" /\ IsIntText(v.s) THEN IntV(TextToInt(v.s)) ELSE v
ToText(v) == IF v.t = "int" THEN TextV(IntToStr(v.n)) ELSE v

\* a = b after sqlite's comparison affinity; an integer never equals a text
CompareEq(a, affA, b, affB) ==
    LET a2 == IF affB = "INTEGER" /\ affA # "INTEGER" THEN ToNumeric(a)
              ELSE IF affB = "TEXT" /\ affA = "NONE" THEN ToText(a) ELSE a
        b2 == IF affA = "INTEGER" /\ affB # "INTEGER" THEN ToNumeric(b)
              ELSE IF affA = "TEXT" /\ affB = "NONE" THEN ToText(b) ELSE b
    IN  a2 = b2

Truth(v) == IF v.t = "int" THEN v.n # 0 ELSE NumPrefix(v.s) # 0
NumOf(v) == IF v.t = "int" THEN v.n ELSE NumPrefix(v.s)
BoolV(b) == IntV(IF b THEN 1 ELSE 0)

ColumnOf(row, name) ==
    IF name = "ID" THEN IntV(row.id)
    ELSE IF name = "USERNAME" THEN TextV(row.username)
    ELSE IF name = "PASSWORD" THEN TextV(row.password)
    ELSE TextV(row.email)

RECURSIVE Eval(_, _)
Eval(e, row) ==
    IF e.t = "lit" THEN e.v
    ELSE IF e.t = "col" THEN ColumnOf(row, e.name)
    ELSE IF e.t = "neg" THEN IntV(0 - NumOf(Eval(e.e, row)))
    ELSE IF e.op = "=" THEN BoolV(CompareEq(Eval(e.l, row), Affinity(e.l),
                                            Eval(e.r, row), Affinity(e.r)))
    ELSE IF e.op = "AND" THEN BoolV(Truth(Eval(e.l, row)) /\ Truth(Eval(e.r, row)))
    ELSE BoolV(Truth(Eval(e.l, row)) \/ Truth(Eval(e.r, row)))

(***************************************************************************)
(* Preparing one statement: Connection.execute compiles the text, refuses  *)
(* a second statement after it, and raises on any syntax error.            *)
(***************************************************************************)
Columns == {"ID", "USERNAME", "PASSWORD", "EMAIL"}

\* tokens ts[i..] end the statement: nothing, or one ; and nothing
EndsAt(ts, i) ==
    \/ At(ts, i).k = "eof"
    \/ IsOp(At(ts, i), ";") /\ At(ts, i + 1).k = "eof"

RECURSIVE KwsAt(_, _, _)
KwsAt(ts, i, words) ==
    \/ Len(words) = 0
    \/ /\ (IsKw(At(ts, i), Head(words)) \/ IsOp(At(ts, i), Head(words)))
       /\ KwsAt(ts, i + 1, Tail(words))

SelectStmt(ts, r) ==
    IF KwsAt(ts, 1, <<"SELECT", "*", "FROM", "USERS", "WHERE">>) /\ r.ok /\ EndsAt(ts, r.next)
    THEN [ok |-> TRUE, where |-> r.e]
    ELSE [ok |-> FALSE, where |-> <<>>]

SelectTokens(ts) == SelectStmt(ts, ParseExpr(ts, 6, Columns))

\* SELECT * FROM users WHERE <expr>
PrepareSelect(query) == SelectTokens(Tokenize(query, 1))

RowsFail == [ok |-> FALSE, rows |-> <<>>, next |-> 0]

RECURSIVE ParseValueList(_, _, _), ValueListNext(_, _, _),
          ParseValueRows(_, _, _), ValueRowsNext(_, _, _)

\* after the value r of a list: , and another value, or )
ValueListNext(ts, r, acc) ==
    CASE ~r.ok -> RowsFail
      [] r.ok /\ IsOp(At(ts, r.next), ",") -> ParseValueList(ts, r.next + 1, Append(acc, r.e))
      [] r.ok /\ IsOp(At(ts, r.next), ")") ->
            [ok |-> TRUE, rows |-> Append(acc, r.e), next |-> r.next + 1]
      [] OTHER -> RowsFail

\* expr , expr , ... ) from ts[i], no column in scope
ParseValueList(ts, i, acc) == ValueListNext(ts, ParseExpr(ts, i, {}), acc)

\* after the row r: it must give the three columns a value; , and another row, or the end
ValueRowsNext(ts, r, acc) ==
    CASE ~r.ok -> RowsFail
      [] r.ok /\ Len(r.rows) # 3 -> RowsFail
      [] r.ok /\ Len(r.rows) = 3 /\ IsOp(At(ts, r.next), ",") ->
            ParseValueRows(ts, r.next + 1, Append(acc, r.rows))
      [] OTHER -> [ok |-> TRUE, rows |-> Append(acc, r.rows), next |-> r.next]

ParseValueRows(ts, i, acc) ==
    IF IsOp(At(ts, i), "(") THEN ValueRowsNext(ts, ParseValueList(ts, i + 1, <<>>), acc)
    ELSE RowsFail

InsertStmt(ts, r) ==
    IF /\ KwsAt(ts, 1, <<"INSERT", "INTO", "USERS", "(", "USERNAME", ",", "PASSWORD",
                         ",", "EMAIL", ")", "VALUES">>)
       /\ r.ok /\ EndsAt(ts, r.next)
    THEN [ok |-> TRUE, rows |-> r.rows]
    ELSE [ok |-> FALSE, rows |-> <<>>]

InsertTokens(ts) == InsertStmt(ts, ParseValueRows(ts, 12, <<>>))

\* INSERT INTO users (username, password, email) VALUES (e, e, e) [, (e, e, e)]*
PrepareInsert(query) == InsertTokens(Tokenize(query, 1))

(***************************************************************************)
(* Bounds and the inputs the operations are called with.                   *)
(***************************************************************************)
MaxRows == 2       \* create_user is not called once the table holds this many rows
MaxCalls == 2      \* increment_counter calls per thread

Usernames ==
    { "alice", "bob",
      "' OR 1=1 --",
      "x','pw123','e')--",
      "a' OR 1=1 OR 'a'='a" }
Passwords == {"pw123", "pw124"}
Emails == {"a@x.com"}
UserIds == {IntV(n) : n \in -1..(MaxRows + 1)} \cup {TextV("0 OR 1=1"), TextV("abc")}
ShellInputs == {"hello", "hi; id"}
Faults == {"none", "execute", "commit"}
Threads == {"t1", "t2"}
DemoUsernames ==
    {"alice", "", "o'brien", "' OR 1=1 --", "x','pw123','e')--", "a' OR 1=1 OR 'a'='a"}
DemoPasswords == {"pw123", "secret", ""}
DemoEmail == "user@example.com"    \* line 74

(***************************************************************************)
(* UserManager (lines 9-47).                                               *)
(***************************************************************************)
\* hashlib.md5(password.encode()).hexdigest(), lines 18 and 33: the digests of
\* the passwords the model uses
md5_hexdigest(password) ==
    CASE password = "pw123" -> "8fc83302c44fcb68b793ceca1d376996"
      [] password = "pw124" -> "c9fcf87f5277d0657bbbe97908df68b6"
      [] password = "secret" -> "5ebe2294ecd0e0f08eab7690d2a6ee69"
      [] password = "" -> "d41d8cd98f00b204e9800998ecf8427e"

\* line 21
InsertQuery(username, password_hash, email) ==
    "INSERT INTO users (username, password, email) VALUES ('" \o username
        \o "', '" \o password_hash \o "', '" \o email \o "')"

\* line 35
AuthQuery(username, password_hash) ==
    "SELECT * FROM users WHERE username = '" \o username
        \o "' AND password = '" \o password_hash \o "'"

\* f"{user_id}": an int is written in decimal, a str as it is
FormatValue(user_id) == IF user_id.t = "int" THEN IntToStr(user_id.n) ELSE user_id.s

\* line 45
GetQuery(user_id) == "SELECT * FROM users WHERE id = " \o FormatValue(user_id)

\* a rowid that repeats the largest one
NextRowidReused(tbl) == IF Len(tbl) = 0 THEN 1 ELSE tbl[Len(tbl)].id

\* INTEGER PRIMARY KEY without a value: one more than the largest rowid
NextRowid(tbl) == IF Len(tbl) = 0 THEN 1 ELSE tbl[Len(tbl)].id + 1

NoRow == [id |-> 0, username |-> "", password |-> "", email |-> ""]

\* the three values of one VALUES row, stored under the TEXT affinity of their columns
NewRow(id, vals) ==
    [id |-> id,
     username |-> ToText(Eval(vals[1], NoRow)).s,
     password |-> ToText(Eval(vals[2], NoRow)).s,
     email    |-> ToText(Eval(vals[3], NoRow)).s]

RECURSIVE InsertRows(_, _)
InsertRows(tbl, rows) ==
    IF Len(rows) = 0 THEN tbl
    ELSE InsertRows(Append(tbl, NewRow(NextRowid(tbl), Head(rows))), Tail(rows))

\* the rows a SELECT yields: a table scan in rowid order
SelectRows(tbl, where) == SelectSeq(tbl, LAMBDA r : Truth(Eval(where, r)))

\* cursor.fetchone(): the first row, or None (the empty sequence here)
fetchone(rows) == IF Len(rows) = 0 THEN <<>> ELSE <<Head(rows)>>

\* Connection.execute compiles a statement text once and keeps it (the
\* connection's statement cache): the statements of the texts the inputs give
InsertTexts ==
    {InsertQuery(u, md5_hexdigest(p), e) : u \in Usernames, p \in Passwords, e \in Emails}
    \cup {InsertQuery(u, md5_hexdigest(p), DemoEmail) : u \in DemoUsernames, p \in DemoPasswords}
SelectTexts ==
    {AuthQuery(u, md5_hexdigest(p)) : u \in Usernames, p \in Passwords}
    \cup {AuthQuery(u, md5_hexdigest(p)) : u \in DemoUsernames, p \in DemoPasswords}
    \cup {GetQuery(i) : i \in UserIds}
InsertCache == [q \in InsertTexts |-> PrepareInsert(q)] @@ <<>>
SelectCache == [q \in SelectTexts |-> PrepareSelect(q)] @@ <<>>

CompileInsert(query) == InsertCache[query]
CompileSelect(query) == SelectCache[query]

\* lines 23-29: execute, commit, and the except branch.
\* fault: a storage failure outside the statement text (the database file is
\* locked by another connection) at execute (line 24) or at commit (line 25).
\* A failed commit leaves the transaction open: its rows stay visible to this
\* connection and the next successful commit writes them.
TryInsert(tbl, done, stmt, fault) ==
    LET executed == stmt.ok /\ fault # "execute"
        tbl2     == IF executed THEN InsertRows(tbl, stmt.rows) ELSE tbl
        saved    == executed /\ fault # "commit"
    IN  [table |-> tbl2,
         committed |-> IF saved THEN Len(tbl2) ELSE done,
         outcome |-> IF saved THEN "True" ELSE "False",
         failed |-> ~saved]

\* create_user, lines 16-29, on table tbl with `done` rows committed
create_user(tbl, done, username, password, email, fault) ==
    LET password_hash == md5_hexdigest(password)
        query == InsertQuery(username, password_hash, email)
    IN  TryInsert(tbl, done, CompileInsert(query), fault)

\* authenticate accepting only when the query yields exactly one row
AuthResultExactlyOne(tbl, stmt) ==
    IF ~stmt.ok THEN [outcome |-> "raised", rows |-> <<>>]
    ELSE LET found == SelectRows(tbl, stmt.where)
         IN  [outcome |-> IF Len(found) = 1 THEN "True" ELSE "False", rows |-> fetchone(found)]

\* lines 36-41: fetchone and the truth of the row
AuthResult(tbl, stmt) ==
    IF ~stmt.ok THEN [outcome |-> "raised", rows |-> <<>>]
    ELSE LET user == fetchone(SelectRows(tbl, stmt.where))
         IN  [outcome |-> IF Len(user) > 0 THEN "True" ELSE "False", rows |-> user]

\* authenticate, lines 31-41
authenticate(tbl, username, password) ==
    LET password_hash == md5_hexdigest(password)
    IN  AuthResult(tbl, CompileSelect(AuthQuery(username, password_hash)))

\* lines 46-47: the row or None
GetResult(tbl, stmt) ==
    IF ~stmt.ok THEN [outcome |-> "raised", rows |-> <<>>]
    ELSE LET user == fetchone(SelectRows(tbl, stmt.where))
         IN  [outcome |-> IF Len(user) > 0 THEN "row" ELSE "None", rows |-> user]

\* get_user_data, lines 43-47
get_user_data(tbl, user_id) == GetResult(tbl, CompileSelect(GetQuery(user_id)))

(***************************************************************************)
(* execute_system_command (lines 54-56): os.system hands the text to       *)
(* sh -c, which runs each ;-separated command of it, words split at blanks.*)
(***************************************************************************)
\* the pieces of s between occurrences of c, from position i
RECURSIVE SplitOn(_, _, _)
SplitOn(s, i, c) ==
    LET e == FindChar(s, i, c)
    IN  IF e > Len(s) THEN <<SubSeq(s, i, Len(s))>>
        ELSE <<SubSeq(s, i, e - 1)>> \o SplitOn(s, e + 1, c)

NonEmpty(seq) == SelectSeq(seq, LAMBDA x : Len(x) > 0)

\* the argument vectors sh -c runs for a command line
ShellRun(command) ==
    LET cmds == SplitOn(command, 1, ";")
        argv == [k \in 1..Len(cmds) |-> NonEmpty(SplitOn(cmds[k], 1, " "))]
    IN  NonEmpty(argv)

\* line 55
ShellCommand(user_input) == "echo " \o user_input

execute_system_command(user_input) == ShellRun(ShellCommand(user_input))

(***************************************************************************)
(* The store as a state machine: any sequence of calls on one UserManager  *)
(* and of execute_system_command.                                          *)
(***************************************************************************)
NoCall ==
    [op |-> "none", username |-> "", password |-> "", email |-> "", user_id |-> IntV(0),
     user_input |-> "", fault |-> "none", failed |-> FALSE, outcome |-> "", rows |-> <<>>,
     ran |-> <<>>]

\* the __main__ block: pc names the line about to run
DemoAt(pc) == [pc |-> pc, username |-> "", password |-> "", create_result |-> "", stdout |-> <<>>]

\* __init__, lines 10-14, on a fresh users.db; global_counter = 0, line 59
Loaded ==
    /\ table = <<>>
    /\ committed = 0
    /\ created = {}
    /\ call = NoCall
    /\ global_counter = 0
    /\ threads = [t \in Threads |-> [pc |-> "idle", loaded |-> 0, calls |-> 0]]
    /\ returned = <<>>
    /\ overlapped = FALSE

\* the module imported: __main__ does not run
Init == Loaded /\ demo = DemoAt("imported")

CreateUserDone(username, password, email, fault, r) ==
    /\ Len(r.table) <= MaxRows
    /\ table' = r.table
    /\ committed' = r.committed
    /\ created' = IF r.outcome = "True" THEN created \cup {<<username, password>>} ELSE created
    /\ call' = [NoCall EXCEPT !.op = "create_user", !.username = username,
                              !.password = password, !.email = email, !.fault = fault,
                              !.failed = r.failed, !.outcome = r.outcome]
    /\ UNCHANGED <<global_counter, threads, returned, overlapped, demo>>

CreateUser ==
    \E username \in Usernames, password \in Passwords, email \in Emails, fault \in Faults :
        /\ Len(table) < MaxRows
        /\ CreateUserDone(username, password, email, fault,
                          create_user(table, committed, username, password, email, fault))

AuthenticateDone(username, password, r) ==
    /\ call' = [NoCall EXCEPT !.op = "authenticate", !.username = username,
                              !.password = password, !.outcome = r.outcome, !.rows = r.rows]
    /\ UNCHANGED <<table, committed, created, global_counter, threads, returned,
                   overlapped, demo>>

Authenticate ==
    \E username \in Usernames, password \in Passwords :
        AuthenticateDone(username, password, authenticate(table, username, password))

GetUserDataDone(user_id, r) ==
    /\ call' = [NoCall EXCEPT !.op = "get_user_data", !.user_id = user_id,
                              !.outcome = r.outcome, !.rows = r.rows]
    /\ UNCHANGED <<table, committed, created, global_counter, threads, returned,
                   overlapped, demo>>

GetUserData ==
    \E user_id \in UserIds : GetUserDataDone(user_id, get_user_data(table, user_id))

ExecuteSystemCommand ==
    \E user_input \in ShellInputs :
        /\ call' = [NoCall EXCEPT !.op = "execute_system_command",
                                  !.user_input = user_input, !.outcome = "None",
                                  !.ran = execute_system_command(user_input)]
        /\ UNCHANGED <<table, committed, created, global_counter, threads, returned,
                       overlapped, demo>>

Next == CreateUser \/ Authenticate \/ GetUserData \/ ExecuteSystemCommand

Spec == Init /\ [][Next]_vars

(***************************************************************************)
(* increment_counter (lines 59-64) called from threads.  global_counter    *)
(* += 1 is a load of the global, an add and a store, and return reads the  *)
(* global again; nothing keeps another thread from running in between.     *)
(***************************************************************************)
\* an increment that stores the value it loaded
IncrementedNot(loaded) == loaded

\* line 63: the value stored for the value loaded
Incremented(loaded) == loaded + 1

InCall(t) == threads[t].pc # "idle"

IncLoad(t) ==
    /\ threads[t].pc = "idle"
    /\ threads[t].calls < MaxCalls
    /\ threads' = [threads EXCEPT ![t] = [pc |-> "store", loaded |-> global_counter,
                                          calls |-> @.calls + 1]]
    /\ overlapped' = (overlapped \/ \E u \in Threads \ {t} : InCall(u))
    /\ UNCHANGED <<table, committed, created, call, global_counter, returned, demo>>

IncStore(t) ==
    /\ threads[t].pc = "store"
    /\ global_counter' = Incremented(threads[t].loaded)
    /\ threads' = [threads EXCEPT ![t].pc = "return"]
    /\ UNCHANGED <<table, committed, created, call, returned, overlapped, demo>>

IncReturn(t) ==
    /\ threads[t].pc = "return"
    /\ returned' = Append(returned, global_counter)
    /\ threads' = [threads EXCEPT ![t].pc = "idle"]
    /\ UNCHANGED <<table, committed, created, call, global_counter, overlapped, demo>>

NextCounter == \E t \in Threads : IncLoad(t) \/ IncStore(t) \/ IncReturn(t)

SpecCounter == Init /\ [][NextCounter]_vars

(***************************************************************************)
(* The interactive demo (lines 67-79).                                     *)
(***************************************************************************)
InitMain == Loaded /\ demo = DemoAt("line71")

\* line 71
DemoInputUsername ==
    /\ demo.pc = "line71"
    /\ \E username \in DemoUsernames : demo' = [demo EXCEPT !.username = username, !.pc = "line72"]
    /\ UNCHANGED <<table, committed, created, call, global_counter, threads, returned, overlapped>>

\* line 72
DemoInputPassword ==
    /\ demo.pc = "line72"
    /\ \E password \in DemoPasswords : demo' = [demo EXCEPT !.password = password, !.pc = "line74"]
    /\ UNCHANGED <<table, committed, created, call, global_counter, threads, returned, overlapped>>

DemoCreateUserDone(fault, r) ==
    /\ table' = r.table
    /\ committed' = r.committed
    /\ created' = IF r.outcome = "True" THEN created \cup {<<demo.username, demo.password>>}
                  ELSE created
    /\ call' = [NoCall EXCEPT !.op = "create_user", !.username = demo.username,
                              !.password = demo.password, !.email = DemoEmail,
                              !.fault = fault, !.failed = r.failed, !.outcome = r.outcome]
    /\ demo' = [demo EXCEPT !.pc = "line76", !.create_result = r.outcome,
                            !.stdout = IF r.failed THEN Append(@, "Database error") ELSE @]
    /\ UNCHANGED <<global_counter, threads, returned, overlapped>>

\* line 74; the except branch of create_user prints, line 28
DemoCreateUser ==
    /\ demo.pc = "line74"
    /\ \E fault \in Faults :
          DemoCreateUserDone(fault, create_user(table, committed, demo.username,
                                                demo.password, DemoEmail, fault))

DemoAuthenticateDone(r) ==
    /\ call' = [NoCall EXCEPT !.op = "authenticate", !.username = demo.username,
                              !.password = demo.password, !.outcome = r.outcome,
                              !.rows = r.rows]
    /\ demo' = IF r.outcome = "raised" THEN [demo EXCEPT !.pc = "crashed"]
               ELSE [demo EXCEPT !.pc = "exit",
                                 !.stdout = Append(@, IF r.outcome = "True"
                                                      THEN "Authentication successful!"
                                                      ELSE "Authentication failed!")]
    /\ UNCHANGED <<table, committed, created, global_counter, threads, returned, overlapped>>

\* lines 76-79; an exception authenticate raises ends the program with a traceback
DemoAuthenticate ==
    /\ demo.pc = "line76"
    /\ DemoAuthenticateDone(authenticate(table, demo.username, demo.password))

NextMain == DemoInputUsername \/ DemoInputPassword \/ DemoCreateUser \/ DemoAuthenticate

SpecMain == InitMain /\ [][NextMain]_vars

(***************************************************************************)
(* The claims.                                                             *)
(***************************************************************************)
\* a stored record holds this username and the hash of this password
Matches(row, username, password) ==
    row.username = username /\ row.password = md5_hexdigest(password)

MatchCount(tbl, username, password) ==
    Cardinality({i \in 1..Len(tbl) : Matches(tbl[i], username, password)})

HasQuote(s) == "'" \in CharsOf(s)

IsPrefix(a, b) == Len(a) <= Len(b) /\ SubSeq(b, 1, Len(a)) = a

\* C1: authenticate(u, p) returns true iff an earlier create_user(u, p, e) returned
\* true, for every username, those holding quote characters included.
C1_TrueIffCreated ==
    call.op = "authenticate" =>
        (call.outcome = "True" <=> <<call.username, call.password>> \in created)

\* C2 as stated: authenticate returns true iff exactly one stored record matches
\* the username and the hash of the password, so not when two or more match.
\* Stated for the usernames that hold no quote character; C9 is about the others.
C2_TrueIffExactlyOne ==
    (call.op = "authenticate" /\ ~HasQuote(call.username)) =>
        (call.outcome = "True" <=> MatchCount(table, call.username, call.password) = 1)

\* C2 as amended: authenticate returns true iff the statement compiles and at
\* least one stored record satisfies its WHERE condition; for a username without
\* a quote character that is: iff at least one stored record matches the username
\* and the hash of the password (two or more matching records give true as well).
C2_TrueIffSomeRecord ==
    call.op = "authenticate" =>
        /\ call.outcome = "True" <=>
              \E i \in 1..Len(table) :
                  /\ CompileSelect(AuthQuery(call.username, md5_hexdigest(call.password))).ok
                  /\ Truth(Eval(CompileSelect(AuthQuery(call.username,
                                    md5_hexdigest(call.password))).where, table[i]))
        /\ ~HasQuote(call.username) =>
              /\ call.outcome # "raised"
              /\ call.outcome = "True" <=>
                    MatchCount(table, call.username, call.password) >= 1

\* C2 witness: two stored records match and authenticate returned true
C2_TrueOnTwoMatches ==
    /\ call.op = "authenticate"
    /\ ~HasQuote(call.username)
    /\ MatchCount(table, call.username, call.password) >= 2
    /\ call.outcome = "True"

\* C3: once create_user(u, p, e) has returned true, authenticate(u, q) returns
\* false for every password q other than p, whatever was created later.
C3_OtherPasswordRejected ==
    (/\ call.op = "authenticate"
     /\ \E p \in Passwords : p # call.password /\ <<call.username, p>> \in created)
    => call.outcome = "False"

\* C4: after a successful create_user(u, p, e), get_user_data on the id given to
\* the new record yields a record with username u and email e whose password
\* field is not p.
C4_StoredRecordIsTheInput ==
    (call.op = "create_user" /\ call.outcome = "True") =>
        /\ Len(table) > 0
        /\ get_user_data(table, IntV(table[Len(table)].id)).outcome = "row"
        /\ get_user_data(table, IntV(table[Len(table)].id)).rows[1].username = call.username
        /\ get_user_data(table, IntV(table[Len(table)].id)).rows[1].email = call.email
        /\ get_user_data(table, IntV(table[Len(table)].id)).rows[1].password # call.password

\* C5: get_user_data with an integer identifier that no stored record has
\* returns None and does not raise, whatever the table holds.
C5_MissingIdGivesNone ==
    (/\ call.op = "get_user_data"
     /\ call.user_id.t = "int"
     /\ \A i \in 1..Len(table) : table[i].id # call.user_id.n)
    => call.outcome = "None"

\* C5 witness: a lookup of an absent id in a table that holds records
C5_MissingIdInFilledTable ==
    /\ call.op = "get_user_data"
    /\ call.user_id.t = "int"
    /\ Len(table) > 0
    /\ \A i \in 1..Len(table) : table[i].id # call.user_id.n
    /\ call.outcome = "None"

\* C6: when the storage operation inside create_user fails, create_user returns
\* false and the table holds exactly the records it held before the call.
C6_FailedCreateChangesNothing ==
    [][(call'.op = "create_user" /\ call'.failed) =>
          (call'.outcome = "False" /\ table' = table)]_vars

\* C7: records are only added, and only by create_user: every step keeps the
\* records the table held, a step that changes the table is a create_user, the
\* ids of the records are distinct.
C7_RecordsOnlyAdded ==
    /\ [](\A i, j \in 1..Len(table) : table[i].id = table[j].id => i = j)
    /\ [][/\ IsPrefix(table, table')
          /\ table' # table => call'.op = "create_user"]_vars

\* C7 witness: a full table after an authenticate whose username holds SQL text
C7_TableKeptByAuthenticate ==
    /\ call.op = "authenticate"
    /\ HasQuote(call.username)
    /\ call.outcome = "True"
    /\ Len(table) = MaxRows

\* C8: calls that do not overlap return 1, 2, 3, ...; with no call in progress
\* the counter is at least 1 and at most the number of calls made.
C8_SequentialCallsCount ==
    /\ ~overlapped => \A k \in 1..Len(returned) : returned[k] = k
    /\ (Len(returned) > 0 /\ \A t \in Threads : ~InCall(t)) =>
          (global_counter >= 1 /\ global_counter <= Len(returned))

\* C8 witness: two overlapping calls from 0 leave the counter at 1, both return 1
C8_LostUpdate ==
    /\ \A t \in Threads : ~InCall(t)
    /\ returned = <<1, 1>>
    /\ global_counter = 1

\* C9: an input holding quote characters, SQL text or shell metacharacters is
\* only data: create_user stores it as the one new record, authenticate and
\* get_user_data select by the literal value, execute_system_command runs echo
\* and nothing else.
C9_InputsAreOnlyData ==
    /\ (call.op = "create_user" /\ call.fault = "none") =>
          /\ call.outcome = "True"
          /\ Len(table) > 0
          /\ table[Len(table)].username = call.username
          /\ table[Len(table)].email = call.email
          /\ table[Len(table)].password = md5_hexdigest(call.password)
    /\ call.op = "authenticate" =>
          (call.outcome = "True" <=> MatchCount(table, call.username, call.password) >= 1)
    /\ call.op = "get_user_data" =>
          \A k \in 1..Len(call.rows) :
              CompareEq(IntV(call.rows[k].id), "INTEGER", call.user_id, "NONE")
    /\ call.op = "execute_system_command" =>
          (Len(call.ran) = 1 /\ call.ran[1][1] = "echo")

DemoMessages ==
    SelectSeq(demo.stdout, LAMBDA line : line \in {"Authentication successful!",
                                                   "Authentication failed!"})

\* C10: every run of the demo ends having printed exactly one of the two
\* messages, and the successful one whenever create_user returned true.
C10_DemoPrintsOneMessage ==
    demo.pc \in {"exit", "crashed"} =>
        /\ Len(DemoMessages) = 1
        /\ demo.create_result = "True" => DemoMessages = <<"Authentication successful!">>

====
